---- MODULE Spec2Model ----
(***************************************************************************)
(* The attendance punch clock of src/pages/AttendancePage.tsx: one mounted *)
(* AttendancePage over the hr_attendance table.                            *)
(*                                                                         *)
(* Time is counted in ticks of 12 seconds.  One hundredth of an hour is 3  *)
(* ticks, so no elapsed time lies exactly between two hundredths and       *)
(* toFixed(2) never meets a tie.  A calendar date is the number of the day *)
(* in a non-leap year (0 = 1 January); an instant is a number of ticks     *)
(* since the start of day 0.  An hour count with two decimals is held as   *)
(* its number of hundredths in the table; the sum of the month is held as  *)
(* the double the page computes.                                           *)
(***************************************************************************)
EXTENDS Integers, Sequences, FiniteSets, TLC

\* ---------------------------------------------------------------- bounds
MaxRecords == 3
MaxFetches == 2
MaxEvents == 1
\* the longest time, in hours, from a punch-in to the clock reading of a page
\* that mounts over an existing row
MaxHours == 9

\* ------------------------------------------------------------- constants
\* (1000 * 60 * 60) milliseconds, in ticks
TicksPerHour == 300
TicksPerDay == 24 * TicksPerHour
\* hoursWorked >= 8, hoursWorked >= 4
PresentHours == 8
PartialHours == 4
\* thirtyDaysAgo.getDate() - 30
HistoryDays == 30

Employees == {"e1", "e2"}
\* The days the session is open on: 31 January and 4 March.
Days == {30, 62}
\* The clock readings of a day: 09:00:00 and 12:59:48.
Offsets == {9 * TicksPerHour, 13 * TicksPerHour - 1}
Instants == {d * TicksPerDay + o : d \in Days, o \in Offsets}

\* The clock readings of a page that mounts over a row punched in at t: each
\* whole hour after t, a tick before and after it, and a quarter and a half
\* past it.
Jitter == {0 - 1, 0, 1, TicksPerHour \div 4, TicksPerHour \div 2}
ReadingsAfter(t) == {t + h * TicksPerHour + j : h \in 0..MaxHours, j \in Jitter}

\* null, and a value that is not null
None == <<>>
Some(x) == <<x>>

\* ------------------------------------------------------------- calendar
MonthLengths == <<31, 28, 31, 30, 31, 30, 31, 31, 30, 31, 30, 31>>

RECURSIVE FirstOfMonth(_)
\* The date of the first day of month m (1..12).
FirstOfMonth(m) == IF m = 1 THEN 0 ELSE FirstOfMonth(m - 1) + MonthLengths[m - 1]

MonthOf(d) == CHOOSE m \in 1..12 : FirstOfMonth(m) <= d /\ d < FirstOfMonth(m) + MonthLengths[m]

\* format(startOfMonth(new Date()), 'yyyy-MM-dd')
startOfMonth(d) == FirstOfMonth(MonthOf(d))
\* format(endOfMonth(new Date()), 'yyyy-MM-dd')
endOfMonth(d) == FirstOfMonth(MonthOf(d)) + MonthLengths[MonthOf(d)] - 1

\* format(new Date(), 'yyyy-MM-dd') at instant t
DateOf(t) == t \div TicksPerDay

\* --------------------------------------------------------------- state
VARIABLES
    store,              \* hr_attendance: the rows, row i has id i
    clock,              \* what new Date() reads
    employee,           \* employee.id of useAuth()
    todayRecord,        \* None or Some(row)
    attendanceHistory,  \* sequence of rows
    monthlyHours,       \* a Number
    loading,
    punching,
    fetches,            \* the fetchAttendance runs in flight
    pendingEvents,      \* change notifications on their way to the channel
    punchOp,            \* None or Some(the write handlePunchIn/Out awaits)
    toast               \* title of the last toast

vars == <<store, clock, employee, todayRecord, attendanceHistory, monthlyHours,
          loading, punching, fetches, pendingEvents, punchOp, toast>>

view == <<todayRecord, attendanceHistory, monthlyHours>>

\* const today = format(new Date(), 'yyyy-MM-dd'), evaluated on every render
today == DateOf(clock)

\* ------------------------------------------------------------ the store
StoreIds == 1..Len(store)

\* .eq('employee_id', e).eq('attendance_date', d)
RowsOn(e, d) == {i \in StoreIds : store[i].employee_id = e /\ store[i].attendance_date = d}

\* The query without its upper bound.
RowsBetweenFrom(e, lo, hi) ==
    {i \in StoreIds : /\ store[i].employee_id = e
                      /\ lo <= store[i].attendance_date}

\* .eq('employee_id', e).gte('attendance_date', lo).lte('attendance_date', hi)
RowsBetween(e, lo, hi) ==
    {i \in StoreIds : /\ store[i].employee_id = e
                      /\ lo <= store[i].attendance_date
                      /\ store[i].attendance_date <= hi}

\* .maybeSingle(): the row, or null when there is none
MaybeSingle(e, d) == IF RowsOn(e, d) = {} THEN None ELSE Some(store[CHOOSE i \in RowsOn(e, d) : TRUE])

RECURSIVE OrderDesc(_)
\* .order('attendance_date', { ascending: false }) of the rows with ids in S
OrderDesc(S) ==
    IF S = {} THEN <<>>
    ELSE LET i == CHOOSE j \in S : \A k \in S :
                      \/ store[k].attendance_date < store[j].attendance_date
                      \/ (store[k].attendance_date = store[j].attendance_date /\ k >= j)
         IN <<store[i]>> \o OrderDesc(S \ {i})

\* The 30-day history query issued on date d.
HistoryRows(e, d) == OrderDesc({i \in StoreIds : /\ store[i].employee_id = e
                                                 /\ store[i].attendance_date >= d - HistoryDays})

\* The orders in which the store may return the rows with ids in S, each row
\* reduced to its total_hours column: the month query has no ORDER BY.
Orders(S) ==
    {q \in [1..Cardinality(S) -> S] : \A a, b \in 1..Cardinality(S) : a # b => q[a] # q[b]}

MonthRows(e, d) ==
    {[k \in 1..Len(q) |-> store[q[k]].total_hours] :
        q \in Orders(RowsBetween(e, startOfMonth(d), endOfMonth(d)))}

\* ------------------------------------------------- handlePunchOut's sums
\* new Date(isoString).getTime() of a timestamp that is set
GetTime(t) == t[1]

\* Hundredths cut off instead of rounded.
ToFixed2Truncating(ticks) ==
    IF ticks < 0 THEN 0 - ((100 * (0 - ticks)) \div TicksPerHour)
    ELSE (100 * ticks) \div TicksPerHour

\* parseFloat(x.toFixed(2)) of x = ticks / TicksPerHour hours, in hundredths:
\* the nearest hundredth, the sign kept aside as toFixed does.
ToFixed2(ticks) ==
    LET Nearest(n) == (200 * n + TicksPerHour) \div (2 * TicksPerHour)
    IN IF ticks < 0 THEN 0 - Nearest(0 - ticks) ELSE Nearest(ticks)

\* The thresholds compared with > instead of >=.
StatusOfStrict(ticks) ==
    IF ticks > PresentHours * TicksPerHour THEN "present"
    ELSE IF ticks > PartialHours * TicksPerHour THEN "partial"
    ELSE "absent"

\* hoursWorked >= 8 ? 'present' : hoursWorked >= 4 ? 'partial' : 'absent'
StatusOf(ticks) ==
    IF ticks >= PresentHours * TicksPerHour THEN "present"
    ELSE IF ticks >= PartialHours * TicksPerHour THEN "partial"
    ELSE "absent"

\* The update handlePunchOut sends for a record punched in at punch_in_time.
PunchOutPatch(punch_in_time, now) ==
    LET hoursWorked == now - GetTime(punch_in_time)
    IN [punch_out_time |-> Some(now),
        total_hours |-> Some(ToFixed2(hoursWorked)),
        status |-> Some(StatusOf(hoursWorked))]

\* ------------------------------------------------------- derived reads
\* getStatus without the test of punch_in_time and punch_out_time.
getStatusStored(rec) ==
    IF rec = None THEN "absent"
    ELSE IF rec[1].status = Some("present") THEN "present"
    ELSE IF rec[1].status = Some("partial") THEN "partial"
    ELSE "absent"

getStatus(rec) ==
    IF rec = None THEN "absent"
    ELSE IF rec[1].status = Some("present") THEN "present"
    ELSE IF rec[1].status = Some("partial") THEN "partial"
    ELSE IF rec[1].punch_in_time # None /\ rec[1].punch_out_time = None THEN "present"
    ELSE "absent"

isPunchedIn == todayRecord # None /\ todayRecord[1].punch_out_time = None

\* ------------------------------------------------------------- Number
\* total_hours is a decimal in the table and a Number (an IEEE 754 double) in
\* the page.  A Number x is held as the integer x * 2^FractionBits: its sign
\* and the bits of its magnitude, the lowest first and the highest a 1.  Every
\* Number met here is such an integer: the least in magnitude but 0 is 0.01,
\* whose last bit is 2^-59.
Precision == 53
FractionBits == 59
\* bits kept below 2^-FractionBits while a quotient is rounded
GuardBits == 16

\* F of the value of v, of the values of u and v: the value is worked out
\* once, however often F uses it.
Let(v, F(_)) == CHOOSE r \in {F(x) : x \in {v}} : TRUE
Let2(u, v, F(_, _)) == CHOOSE r \in {F(x, y) : x \in {u}, y \in {v}} : TRUE

Zero == [neg |-> FALSE, mag |-> <<>>]
Number(neg, mag) == Let(mag, LAMBDA m : [neg |-> neg /\ m # <<>>, mag |-> m])

\* The sequence b without its leading zeros, which are its last elements.
Trim(bits) ==
    Let(bits, LAMBDA b :
        IF b = <<>> \/ b[Len(b)] = 1 THEN b
        ELSE IF \A i \in 1..Len(b) : b[i] = 0 THEN <<>>
        ELSE SubSeq(b, 1, CHOOSE i \in 1..Len(b) :
                             b[i] = 1 /\ \A j \in (i + 1)..Len(b) : b[j] = 0))

\* The element of b of weight 2^(i - 1), 0 past its end.
BitAt(b, i) == IF i \in 1..Len(b) THEN b[i] ELSE 0

\* The bits of the natural number n < 2^31.
BitsOf(n) == Trim([i \in 1..31 |-> (n \div 2^(i - 1)) % 2])

\* Sums and quotients are worked in limbs of LimbBits bits, the lowest
\* first, to keep every step within the integers at hand.
LimbBits == 15

RECURSIVE LimbAt(_, _, _)
\* The count bits of b from place i on, as a natural number.
LimbAt(b, i, count) ==
    IF count = 0 THEN 0 ELSE BitAt(b, i) + 2 * LimbAt(b, i + 1, count - 1)

\* The limbs of b, n of them.
LimbsOf(bits, n) ==
    Let(bits, LAMBDA b : [k \in 1..n |-> LimbAt(b, LimbBits * (k - 1) + 1, LimbBits)])

\* The bits of the limbs l.
BitsOfLimbs(limbs) ==
    Let(limbs, LAMBDA l :
        Trim([i \in 1..(LimbBits * Len(l)) |->
                 (l[(i - 1) \div LimbBits + 1] \div 2^((i - 1) % LimbBits)) % 2]))

RECURSIVE FractionLimbsOf(_, _, _)
\* The first n limbs of r / d after the binary point, for r < d, by long
\* division, and the remainder they leave.
FractionLimbsOf(r, d, n) ==
    IF n = 0 THEN [limbs |-> <<>>, rem |-> r]
    ELSE Let(FractionLimbsOf((r * 2^LimbBits) % d, d, n - 1), LAMBDA rest :
             [limbs |-> Append(rest.limbs, (r * 2^LimbBits) \div d), rem |-> rest.rem])

\* b + 1
Increment(bits) ==
    Let(bits, LAMBDA b :
        Let(CHOOSE i \in 1..(Len(b) + 1) :
                BitAt(b, i) = 0 /\ \A j \in 1..(i - 1) : b[j] = 1,
            LAMBDA low :
                [i \in 1..(IF low > Len(b) THEN low ELSE Len(b)) |->
                    IF i < low THEN 0 ELSE IF i = low THEN 1 ELSE b[i]]))

\* Round to nearest, ties to even: the magnitude m, followed by further
\* nonzero bits when inexact, with Precision significant bits.
RoundMag(mag, inexact) ==
    Let(mag, LAMBDA m :
        IF Len(m) <= Precision THEN m
        ELSE LET d == Len(m) - Precision
                 sticky == inexact \/ \E i \in 1..(d - 1) : m[i] = 1
                 up == m[d] = 1 /\ (sticky \/ m[d + 1] = 1)
             IN Let(SubSeq(m, d + 1, Len(m)), LAMBDA kept :
                    [i \in 1..d |-> 0] \o (IF up THEN Increment(kept) ELSE kept)))

\* The quotient q of limbs and remainder, rounded, without its guard bits.
RoundQuotient(quotient, whole) ==
    Let(quotient, LAMBDA q : RoundMag(BitsOfLimbs(q.limbs \o whole), q.rem # 0))
DropGuard(mag) == Let(mag, LAMBDA m : SubSeq(m, GuardBits + 1, Len(m)))

\* The Number the decimal k / 100 is read as.
FromHundredths(k) ==
    LET a == IF k < 0 THEN 0 - k ELSE k
    IN Number(k < 0,
              DropGuard(RoundQuotient(
                  FractionLimbsOf(a % 100, 100, (FractionBits + GuardBits) \div LimbBits),
                  LimbsOf(BitsOf(a \div 100), 3))))

RECURSIVE AddLimbs(_, _, _)
\* a + b + carry, of limbs a and b of one length
AddLimbs(a, b, carry) ==
    IF a = <<>> THEN <<carry>>
    ELSE <<(Head(a) + Head(b) + carry) % 2^LimbBits>>
            \o AddLimbs(Tail(a), Tail(b), (Head(a) + Head(b) + carry) \div 2^LimbBits)

RECURSIVE SubLimbs(_, _, _)
\* a - b - borrow, of limbs a and b of one length, for a >= b + borrow
SubLimbs(a, b, borrow) ==
    IF a = <<>> THEN <<>>
    ELSE <<(Head(a) - Head(b) - borrow + 2^LimbBits) % 2^LimbBits>>
            \o SubLimbs(Tail(a), Tail(b), IF Head(a) - Head(b) - borrow < 0 THEN 1 ELSE 0)

\* The limbs that hold the longer of a and b.
LimbsFor(a, b) == (IF Len(a) > Len(b) THEN Len(a) ELSE Len(b)) \div LimbBits + 1

\* a + b
AddMag(a, b) ==
    Let2(LimbsOf(a, LimbsFor(a, b)), LimbsOf(b, LimbsFor(a, b)),
         LAMBDA la, lb : BitsOfLimbs(AddLimbs(la, lb, 0)))

\* a - b for a >= b
SubMag(a, b) ==
    Let2(LimbsOf(a, LimbsFor(a, b)), LimbsOf(b, LimbsFor(a, b)),
         LAMBDA la, lb : BitsOfLimbs(SubLimbs(la, lb, 0)))

LessMag(a, b) ==
    \/ Len(a) < Len(b)
    \/ /\ Len(a) = Len(b)
       /\ \E i \in 1..Len(a) : a[i] < b[i] /\ \A j \in (i + 1)..Len(a) : a[j] = b[j]

\* The exact sum of two integers held as sign and magnitude.
ExactPlusOf(x, y) ==
    IF x.neg = y.neg THEN Number(x.neg, AddMag(x.mag, y.mag))
    ELSE IF LessMag(x.mag, y.mag) THEN Number(y.neg, SubMag(y.mag, x.mag))
    ELSE Number(x.neg, SubMag(x.mag, y.mag))
ExactPlus(x, y) == Let2(x, y, ExactPlusOf)

\* x + y of two Numbers: the exact sum, rounded; x + 0 is x.
Rounded(exact) == Let(exact, LAMBDA e : Number(e.neg, RoundMag(e.mag, FALSE)))
PlusOf(x, y) ==
    IF x.mag = <<>> THEN y
    ELSE IF y.mag = <<>> THEN x
    ELSE Rounded(ExactPlus(x, y))
Plus(x, y) == Let2(x, y, PlusOf)

\* The integer n * 2^FractionBits, as the Number n is held.
Whole(n) ==
    Let(BitsOf(IF n < 0 THEN 0 - n ELSE n), LAMBDA b :
        Number(n < 0, IF b = <<>> THEN b ELSE [i \in 1..FractionBits |-> 0] \o b))

\* 200 * x, exactly
Times200(number) ==
    Let(number, LAMBDA x :
        LET shift(n) == IF x.mag = <<>> THEN <<>> ELSE [i \in 1..n |-> 0] \o x.mag
        IN Number(x.neg, AddMag(shift(7), AddMag(shift(6), shift(3)))))

\* a <= b
NotAboveOf(a, b) ==
    IF a.neg # b.neg THEN a.neg
    ELSE IF a.neg THEN ~LessMag(a.mag, b.mag)
    ELSE ~LessMag(b.mag, a.mag)
NotAbove(a, b) == Let2(a, b, NotAboveOf)

\* The Number x is within half a hundredth of k / 100.
AgreeToHundredths(x, k) ==
    Let2(Times200(x), k, LAMBDA x200, h :
        /\ NotAbove(Whole(2 * h - 1), x200)
        /\ NotAbove(x200, Whole(2 * h + 1)))

RECURSIVE Reduce(_, _)
\* rows.reduce((sum, record) => sum + (record.total_hours || 0), sum)
Reduce(rows, sum) ==
    IF rows = <<>> THEN sum
    ELSE Let(Plus(sum, IF Head(rows) = None THEN Zero ELSE FromHundredths(Head(rows)[1])),
             LAMBDA next : Reduce(Tail(rows), next))

\* ---------------------------------------------------- fetchAttendance
\* A run is [employee_id, today: what the closure captured; pc: the await it
\* is at; reply: None while the query is at the store, Some(result) once the
\* answer is on its way back; from: the date new Date() gave when the query
\* was built].  A result is [error |-> TRUE] or [error |-> FALSE, data |-> _].
\* Two fields record the run's history and steer nothing: wrote, whether one
\* of its setters changed an output, and overtaken, whether the table changed
\* since the run started.
NewRun(e, d) ==
    [employee_id |-> e, today |-> d, pc |-> "today", reply |-> None, from |-> d,
     wrote |-> FALSE, overtaken |-> FALSE]

\* The runs in flight when the table changes.
Overtaken == [i \in 1..Len(fetches) |-> [fetches[i] EXCEPT !.overtaken = TRUE]]

RemoveAt(s, i) == SubSeq(s, 1, i - 1) \o SubSeq(s, i + 1, Len(s))

\* What the query run f waits for returns from the store.
QueryData(f) ==
    IF f.pc = "today" THEN {MaybeSingle(f.employee_id, f.today)}
    ELSE IF f.pc = "history" THEN {HistoryRows(f.employee_id, f.from)}
    ELSE MonthRows(f.employee_id, f.from)

\* The store answers the query of run i.
StoreAnswers(i) ==
    /\ i \in 1..Len(fetches)
    /\ fetches[i].reply = None
    /\ \E x \in QueryData(fetches[i]) :
         fetches' = [fetches EXCEPT ![i].reply = Some([error |-> FALSE, data |-> x])]
    /\ UNCHANGED <<store, clock, employee, todayRecord, attendanceHistory, monthlyHours,
                   loading, punching, pendingEvents, punchOp, toast>>

\* The query of run i fails: the store or the network answers with an error.
QueryFails(i) ==
    /\ i \in 1..Len(fetches)
    /\ fetches[i].reply = None
    /\ fetches' = [fetches EXCEPT ![i].reply = Some([error |-> TRUE, data |-> None])]
    /\ UNCHANGED <<store, clock, employee, todayRecord, attendanceHistory, monthlyHours,
                   loading, punching, pendingEvents, punchOp, toast>>

\* Run i resumes after its await with an error: catch, then finally.
FetchFails(i) ==
    /\ i \in 1..Len(fetches)
    /\ fetches[i].reply # None
    /\ fetches[i].reply[1].error
    /\ toast' = "Error"
    /\ loading' = FALSE
    /\ fetches' = RemoveAt(fetches, i)
    /\ UNCHANGED <<store, clock, employee, todayRecord, attendanceHistory, monthlyHours,
                   punching, pendingEvents, punchOp>>

\* Run i resumes after its await with data: the setter, then the next query
\* (built from new Date()) or finally.
FetchResumes(i) ==
    /\ i \in 1..Len(fetches)
    /\ fetches[i].reply # None
    /\ ~fetches[i].reply[1].error
    /\ LET f == fetches[i]
           data == f.reply[1].data
       IN \/ /\ f.pc = "today"
             /\ todayRecord' = data
             /\ fetches' = [fetches EXCEPT ![i].pc = "history", ![i].reply = None,
                                           ![i].from = today,
                                           ![i].wrote = @ \/ data # todayRecord]
             /\ UNCHANGED <<attendanceHistory, monthlyHours, loading>>
          \/ /\ f.pc = "history"
             /\ attendanceHistory' = data
             /\ fetches' = [fetches EXCEPT ![i].pc = "month", ![i].reply = None,
                                           ![i].from = today,
                                           ![i].wrote = @ \/ data # attendanceHistory]
             /\ UNCHANGED <<todayRecord, monthlyHours, loading>>
          \/ /\ f.pc = "month"
             /\ monthlyHours' = Reduce(data, Zero)
             /\ loading' = FALSE
             /\ fetches' = RemoveAt(fetches, i)
             /\ UNCHANGED <<todayRecord, attendanceHistory>>
    /\ UNCHANGED <<store, clock, employee, punching, pendingEvents, punchOp, toast>>

\* fetchAttendance() is called: by the effect or by the channel's callback.
StartFetch(e, d) ==
    /\ Len(fetches) < MaxFetches
    /\ loading' = TRUE
    /\ fetches' = Append(fetches, NewRun(e, d))

\* The channel's callback: refetch on any change.
RealtimeUpdate ==
    /\ pendingEvents > 0
    /\ pendingEvents' = pendingEvents - 1
    /\ StartFetch(employee, today)
    /\ UNCHANGED <<store, clock, employee, todayRecord, attendanceHistory, monthlyHours,
                   punching, punchOp, toast>>

\* The notifications a write to a row of employee e adds: the channel is
\* filtered by the employee.id of the effect's last run.
Notify(e) == IF e = employee THEN pendingEvents + 1 ELSE pendingEvents

\* ------------------------------------------------------- handlePunchIn
\* The button is rendered once loading is over and is disabled by
\* !!todayRecord || punching.
PunchIn ==
    /\ ~loading /\ todayRecord = None /\ ~punching
    /\ Len(store) < MaxRecords \/ RowsOn(employee, today) # {}
    /\ punching' = TRUE
    /\ punchOp' = Some([op |-> "insert", employee_id |-> employee, attendance_date |-> today,
                        punch_in_time |-> Some(clock), status |-> Some("present")])
    /\ UNCHANGED <<store, clock, employee, todayRecord, attendanceHistory, monthlyHours,
                   loading, fetches, pendingEvents, toast>>

\* The store's insert of row r: the error it answers, None when it took the
\* row.  (employee_id, attendance_date) is unique: 23505 is unique_violation.
InsertError(r) == IF RowsOn(r.employee_id, r.attendance_date) # {} THEN Some("23505") ELSE None

\* The row the table holds after the insert of r: the store assigns the id
\* and leaves the columns not given null.
Inserted(r) ==
    [id |-> Len(store) + 1, employee_id |-> r.employee_id, attendance_date |-> r.attendance_date,
     punch_in_time |-> r.punch_in_time, punch_out_time |-> None, total_hours |-> None,
     status |-> r.status, notes |-> None]

\* handlePunchIn without the test of error.code: every error is thrown.
PunchInToastThrowsAll(error) == IF error = None THEN "Punched In" ELSE "Error"

\* The toast handlePunchIn ends with, given the insert's error.
PunchInToast(error) ==
    IF error = None THEN "Punched In"
    ELSE IF error = Some("23505") THEN "Already Punched In"
    ELSE "Error"

\* The store answers the insert and handlePunchIn runs to its end.
PunchInCompletes ==
    /\ punchOp # None /\ punchOp[1].op = "insert"
    /\ LET r == punchOp[1]
           error == InsertError(r)
       IN /\ toast' = PunchInToast(error)
          /\ IF error = None
             THEN /\ Notify(r.employee_id) <= MaxEvents
                  /\ store' = Append(store, Inserted(r))
                  /\ pendingEvents' = Notify(r.employee_id)
                  /\ fetches' = Overtaken
             ELSE UNCHANGED <<store, pendingEvents, fetches>>
    /\ punching' = FALSE
    /\ punchOp' = None
    /\ UNCHANGED <<clock, employee, todayRecord, attendanceHistory, monthlyHours, loading>>

\* The insert fails for another reason and handlePunchIn runs to its end.
PunchInFails ==
    /\ punchOp # None /\ punchOp[1].op = "insert"
    /\ toast' = PunchInToast(Some("fetch failed"))
    /\ punching' = FALSE
    /\ punchOp' = None
    /\ UNCHANGED <<store, clock, employee, todayRecord, attendanceHistory, monthlyHours,
                   loading, fetches, pendingEvents>>

\* ------------------------------------------------------ handlePunchOut
\* The button is disabled by !isPunchedIn || punching; the handler returns
\* at once without a todayRecord.
PunchOut ==
    /\ ~loading /\ isPunchedIn /\ ~punching
    /\ todayRecord # None
    /\ punching' = TRUE
    /\ punchOp' = Some([op |-> "update", id |-> todayRecord[1].id,
                        patch |-> PunchOutPatch(todayRecord[1].punch_in_time, clock)])
    /\ UNCHANGED <<store, clock, employee, todayRecord, attendanceHistory, monthlyHours,
                   loading, fetches, pendingEvents, toast>>

\* .update(patch).eq('id', id): the rows the update leaves in the table.
\* The update selected by the employee of the row instead of its id.
UpdatedByEmployee(id, patch) ==
    [i \in StoreIds |->
        IF store[i].employee_id = store[id].employee_id
        THEN [store[i] EXCEPT !.punch_out_time = patch.punch_out_time,
                              !.total_hours = patch.total_hours,
                              !.status = patch.status]
        ELSE store[i]]

Updated(id, patch) ==
    [i \in StoreIds |->
        IF store[i].id = id
        THEN [store[i] EXCEPT !.punch_out_time = patch.punch_out_time,
                              !.total_hours = patch.total_hours,
                              !.status = patch.status]
        ELSE store[i]]

\* The toast handlePunchOut ends with, given the update's error.
PunchOutToast(error) == IF error = None THEN "Punched Out" ELSE "Error"

\* The store applies the update and handlePunchOut runs to its end.
PunchOutCompletes ==
    /\ punchOp # None /\ punchOp[1].op = "update"
    /\ LET u == punchOp[1]
       IN /\ Notify(store[u.id].employee_id) <= MaxEvents
          /\ store' = Updated(u.id, u.patch)
          /\ pendingEvents' = Notify(store[u.id].employee_id)
    /\ fetches' = Overtaken
    /\ toast' = PunchOutToast(None)
    /\ punching' = FALSE
    /\ punchOp' = None
    /\ UNCHANGED <<clock, employee, todayRecord, attendanceHistory, monthlyHours, loading>>

\* The update fails and handlePunchOut runs to its end.
\* The failing update without the finally block.
PunchOutFailsNoFinally ==
    /\ punchOp # None /\ punchOp[1].op = "update"
    /\ punching
    /\ toast' = PunchOutToast(Some("fetch failed"))
    /\ punchOp' = None
    /\ UNCHANGED <<store, clock, employee, todayRecord, attendanceHistory, monthlyHours,
                   loading, punching, fetches, pendingEvents>>

PunchOutFails ==
    /\ punchOp # None /\ punchOp[1].op = "update"
    /\ toast' = PunchOutToast(Some("fetch failed"))
    /\ punching' = FALSE
    /\ punchOp' = None
    /\ UNCHANGED <<store, clock, employee, todayRecord, attendanceHistory, monthlyHours,
                   loading, fetches, pendingEvents>>

\* -------------------------------------------------- clock and identity
\* The effect's dependencies [employee?.id, today] changed: the cleanup
\* removes the channel, and the effect fetches and subscribes again.
EffectReruns(e, d) ==
    /\ pendingEvents' = 0
    /\ StartFetch(e, d)

\* Time passes within the day.
TimePasses ==
    /\ \E t \in Instants :
         /\ t > clock
         /\ DateOf(t) = today
         /\ clock' = t
    /\ UNCHANGED <<store, employee, todayRecord, attendanceHistory, monthlyHours,
                   loading, punching, fetches, pendingEvents, punchOp, toast>>

\* Midnight passes; the page renders again and today follows the clock.
DayChanges ==
    /\ \E t \in Instants :
         /\ t > clock
         /\ DateOf(t) # today
         /\ clock' = t
         /\ EffectReruns(employee, DateOf(t))
    /\ UNCHANGED <<store, employee, todayRecord, attendanceHistory, monthlyHours,
                   punching, punchOp, toast>>

\* The client's clock is set back within the day.
ClockSetBack ==
    /\ \E t \in Instants :
         /\ t < clock
         /\ DateOf(t) = today
         /\ clock' = t
    /\ UNCHANGED <<store, employee, todayRecord, attendanceHistory, monthlyHours,
                   loading, punching, fetches, pendingEvents, punchOp, toast>>

\* useAuth() yields another employee.
EmployeeChanges ==
    /\ \E e \in Employees \ {employee} :
         /\ employee' = e
         /\ EffectReruns(e, today)
    /\ UNCHANGED <<store, clock, todayRecord, attendanceHistory, monthlyHours,
                   punching, punchOp, toast>>

\* ------------------------------------------------------ specification
FirstInstant == CHOOSE t \in Instants : \A u \in Instants : t <= u

\* The page has mounted: the state hooks hold their initial values and the
\* effect has called fetchAttendance and subscribed.
Init ==
    /\ store = <<>>
    /\ clock = FirstInstant
    /\ employee = "e1"
    /\ todayRecord = None
    /\ attendanceHistory = <<>>
    /\ monthlyHours = Zero
    /\ loading = TRUE
    /\ punching = FALSE
    /\ fetches = <<[employee_id |-> "e1", today |-> DateOf(FirstInstant), pc |-> "today",
                    reply |-> None, from |-> DateOf(FirstInstant),
                    wrote |-> FALSE, overtaken |-> FALSE]>>
    /\ pendingEvents = 0
    /\ punchOp = None
    /\ toast = "none"

\* One employee on one day, with the failures of the store and the network.
Next ==
    \/ \E i \in 1..MaxFetches : StoreAnswers(i)
    \/ \E i \in 1..MaxFetches : QueryFails(i)
    \/ \E i \in 1..MaxFetches : FetchFails(i)
    \/ \E i \in 1..MaxFetches : FetchResumes(i)
    \/ RealtimeUpdate
    \/ PunchIn
    \/ PunchInCompletes
    \/ PunchInFails
    \/ PunchOut
    \/ PunchOutCompletes
    \/ PunchOutFails
    \/ TimePasses
    \/ ClockSetBack

Spec == Init /\ [][Next]_vars

\* One employee on one day; the store and the network do not fail.
NextReliable ==
    \/ \E i \in 1..MaxFetches : StoreAnswers(i)
    \/ \E i \in 1..MaxFetches : FetchResumes(i)
    \/ RealtimeUpdate
    \/ PunchIn
    \/ PunchInCompletes
    \/ PunchOut
    \/ PunchOutCompletes
    \/ TimePasses
    \/ ClockSetBack

SpecReliable == Init /\ [][NextReliable]_vars

\* Days pass and the employee changes; the store and the network do not fail.
NextCalendar ==
    \/ \E i \in 1..MaxFetches : StoreAnswers(i)
    \/ \E i \in 1..MaxFetches : FetchResumes(i)
    \/ RealtimeUpdate
    \/ PunchIn
    \/ PunchInCompletes
    \/ PunchOut
    \/ PunchOutCompletes
    \/ TimePasses
    \/ DayChanges
    \/ EmployeeChanges

SpecCalendar == Init /\ [][NextCalendar]_vars

\* ------------------------------------------- a page over an existing row
\* The rows another session may have left for today: punched in at the first
\* clock reading, open or closed eight hours later, with any status the
\* column admits.
Statuses == {None, Some("present"), Some("partial"), Some("absent")}

ExistingRows ==
    LET open == [id |-> 1, employee_id |-> "e1", attendance_date |-> DateOf(FirstInstant),
                 punch_in_time |-> Some(FirstInstant), punch_out_time |-> None,
                 total_hours |-> None, status |-> None, notes |-> None]
        patch == PunchOutPatch(open.punch_in_time, FirstInstant + PresentHours * TicksPerHour)
        closed == [open EXCEPT !.punch_out_time = patch.punch_out_time,
                               !.total_hours = patch.total_hours]
    IN {[r EXCEPT !.status = st] : r \in {open, closed}, st \in Statuses}

\* The page has mounted over a table that holds one of these rows.
InitRows ==
    /\ \E r \in ExistingRows : store = <<r>>
    /\ clock \in ReadingsAfter(FirstInstant)
    /\ employee = "e1"
    /\ todayRecord = None
    /\ attendanceHistory = <<>>
    /\ monthlyHours = Zero
    /\ loading = TRUE
    /\ punching = FALSE
    /\ fetches = <<[employee_id |-> "e1", today |-> DateOf(FirstInstant), pc |-> "today",
                    reply |-> None, from |-> DateOf(FirstInstant),
                    wrote |-> FALSE, overtaken |-> FALSE]>>
    /\ pendingEvents = 0
    /\ punchOp = None
    /\ toast = "none"

NextRows ==
    \/ \E i \in 1..MaxFetches : StoreAnswers(i)
    \/ \E i \in 1..MaxFetches : FetchResumes(i)
    \/ RealtimeUpdate
    \/ PunchOut
    \/ PunchOutCompletes

SpecRows == InitRows /\ [][NextRows]_vars

\* ---------------------------------------------------------------- SpecMount
\* The page mounts over a table that earlier sessions of both employees have
\* left, in March and on 1 April, and loads it; nothing else happens.
MaxTableRows == 3
TableDates == {59, 62, 89, 90}
MountDates == {62, 90}
\* 0 for a day not punched out of, else the ticks worked: 6, 12 or 18 minutes
Worked == {0} \cup {k * (TicksPerHour \div 10) : k \in 1..3}

\* The row that punching in at nine on day key[2] inserts for key[1], and
\* punching out after w ticks updates.
TableRow(key, w, id) ==
    LET in == key[2] * TicksPerDay + 9 * TicksPerHour
        open == [id |-> id, employee_id |-> key[1], attendance_date |-> key[2],
                 punch_in_time |-> Some(in), punch_out_time |-> None,
                 total_hours |-> None, status |-> Some("present"), notes |-> None]
        patch == PunchOutPatch(open.punch_in_time, in + w)
    IN IF w = 0 THEN open
       ELSE [open EXCEPT !.punch_out_time = patch.punch_out_time,
                         !.total_hours = patch.total_hours,
                         !.status = patch.status]

RECURSIVE TableOf(_, _)
TableOf(K, w) ==
    IF K = {} THEN <<>>
    ELSE LET key == CHOOSE k \in K : TRUE
         IN Append(TableOf(K \ {key}, w), TableRow(key, w[key], Cardinality(K)))

\* the days of the employee who mounts the page, and of the other employee
TableKeys == ({"e1"} \X TableDates) \cup ({"e2"} \X MountDates)

Tables ==
    UNION {{TableOf(K, w) : w \in [K -> Worked]} :
              K \in {S \in SUBSET TableKeys : Cardinality(S) <= MaxTableRows}}

InitMount ==
    /\ store \in Tables
    /\ clock \in {d * TicksPerDay + 10 * TicksPerHour : d \in MountDates}
    /\ employee = "e1"
    /\ todayRecord = None
    /\ attendanceHistory = <<>>
    /\ monthlyHours = Zero
    /\ loading = TRUE
    /\ punching = FALSE
    /\ fetches = <<NewRun(employee, today)>>
    /\ pendingEvents = 0
    /\ punchOp = None
    /\ toast = "none"

NextMount ==
    \/ \E i \in 1..MaxFetches : StoreAnswers(i)
    \/ \E i \in 1..MaxFetches : FetchResumes(i)

SpecMount == InitMount /\ [][NextMount]_vars

\* ----------------------------------------------------------------- SpecLive
\* Spec, with every request answered or failed in the end and every
\* continuation run: the store gives each awaited query and write an outcome,
\* and the event loop resumes the handler that awaits it.
Fairness ==
    /\ \A i \in 1..MaxFetches : WF_vars(StoreAnswers(i) \/ QueryFails(i))
    /\ \A i \in 1..MaxFetches : WF_vars(FetchResumes(i) \/ FetchFails(i))
    /\ WF_vars(PunchInCompletes \/ PunchInFails)
    /\ WF_vars(PunchOutCompletes \/ PunchOutFails)

SpecLive == Init /\ [][Next]_vars /\ Fairness

\* --------------------------------------------------------------- SpecWrites
\* The page mounts on 4 March over a table that may hold the employee's row
\* of 1 March, the employee's row of today and the other employee's row of
\* today, each open or closed after 12 minutes; the employee punches in and
\* out, and a write may fail.
WriteKeys == {<<"e1", 59>>, <<"e1", 62>>, <<"e2", 62>>}
WriteTables ==
    UNION {{TableOf(K, w) : w \in [K -> {0, TicksPerHour \div 5}]} : K \in SUBSET WriteKeys}

InitWrites ==
    /\ store \in WriteTables
    /\ clock = 62 * TicksPerDay + 10 * TicksPerHour
    /\ employee = "e1"
    /\ todayRecord = None
    /\ attendanceHistory = <<>>
    /\ monthlyHours = Zero
    /\ loading = TRUE
    /\ punching = FALSE
    /\ fetches = <<NewRun(employee, today)>>
    /\ pendingEvents = 0
    /\ punchOp = None
    /\ toast = "none"

NextWrites ==
    \/ \E i \in 1..MaxFetches : StoreAnswers(i)
    \/ \E i \in 1..MaxFetches : FetchResumes(i)
    \/ RealtimeUpdate
    \/ PunchIn
    \/ PunchInCompletes
    \/ PunchInFails
    \/ PunchOut
    \/ PunchOutCompletes
    \/ PunchOutFails

SpecWrites == InitWrites /\ [][NextWrites]_vars

\* -------------------------------------------------------------- SpecSession
\* The page mounts over a table that may hold an open row of today for
\* either employee; midnight may pass and the signed-in employee may change
\* while the page stays mounted; the employee may punch out.
SessionTables ==
    {TableOf(K, [k \in K |-> 0]) : K \in SUBSET (Employees \X {DateOf(FirstInstant)})}

InitSession ==
    /\ store \in SessionTables
    /\ clock = FirstInstant
    /\ employee = "e1"
    /\ todayRecord = None
    /\ attendanceHistory = <<>>
    /\ monthlyHours = Zero
    /\ loading = TRUE
    /\ punching = FALSE
    /\ fetches = <<NewRun(employee, today)>>
    /\ pendingEvents = 0
    /\ punchOp = None
    /\ toast = "none"

NextSession ==
    \/ \E i \in 1..MaxFetches : StoreAnswers(i)
    \/ \E i \in 1..MaxFetches : FetchResumes(i)
    \/ RealtimeUpdate
    \/ PunchOut
    \/ PunchOutCompletes
    \/ DayChanges
    \/ EmployeeChanges

SpecSession == InitSession /\ [][NextSession]_vars

\* ================================================================ claims

\* C1: the table never holds two rows of one employee for one date, and
\* when the store answers an insert for an employee and date that already
\* have a row, handlePunchIn ends with the toast 'Already Punched In', not
\* with 'Error', and the table is as it was.
C1_OneRowPerDay ==
    \A i, j \in StoreIds :
        (store[i].employee_id = store[j].employee_id
            /\ store[i].attendance_date = store[j].attendance_date) => i = j

C1_DuplicateStep ==
    (/\ PunchInCompletes
     /\ \E i \in StoreIds : /\ store[i].employee_id = punchOp[1].employee_id
                            /\ store[i].attendance_date = punchOp[1].attendance_date)
    => (toast' = "Already Punched In" /\ store' = store)

C1_DuplicatePunch == []C1_OneRowPerDay /\ [][C1_DuplicateStep]_vars

\* A second punch-in was answered as a duplicate.
C1_Witness == toast = "Already Punched In" /\ Len(store) = 1 /\ punchOp = None

\* C2: a row that has a punch_out_time is never written again.
C2_ClosedRowNeverRewritten ==
    [][\A i \in StoreIds : store[i].punch_out_time # None => store'[i] = store[i]]_vars

\* C3: a run of fetchAttendance that ends in its catch block has changed none
\* of todayRecord, attendanceHistory and monthlyHours.
C3_FailedLoadWritesNothing ==
    \A i \in 1..Len(fetches) :
        (fetches[i].reply # None /\ fetches[i].reply[1].error) => ~fetches[i].wrote

\* What the three outputs are when they show the table as it is now: the row
\* of the employee for today, the employee's rows of the last 30 days with
\* the latest date first, and the hours of the employee's rows of this month.
RECURSIVE HoursOf(_)
HoursOf(S) ==
    IF S = {} THEN 0
    ELSE LET i == CHOOSE j \in S : TRUE
         IN (IF store[i].total_hours = None THEN 0 ELSE store[i].total_hours[1])
                + HoursOf(S \ {i})

\* The outputs t, h and m show the table as it is.
ViewShows(t, h, m) ==
    LET mine == {i \in StoreIds : store[i].employee_id = employee}
        todays == {i \in mine : store[i].attendance_date = today}
        recent == {i \in mine : today - store[i].attendance_date <= HistoryDays}
        month == {i \in mine : MonthOf(store[i].attendance_date) = MonthOf(today)}
    IN /\ todays = {} => t = None
       /\ \A i \in todays : t = Some(store[i])
       /\ Len(h) = Cardinality(recent)
       /\ \A i \in recent : \E k \in 1..Len(h) : h[k] = store[i]
       /\ \A k \in 1..Len(h) - 1 : h[k].attendance_date > h[k + 1].attendance_date
       /\ AgreeToHundredths(m, HoursOf(month))

\* A run of fetchAttendance that started after the last change of the table
\* ends, and no other run, notification or write is under way.
LastReloadEnds(i) ==
    /\ FetchResumes(i)
    /\ fetches[i].pc = "month"
    /\ ~fetches[i].overtaken
    /\ Len(fetches) = 1 /\ pendingEvents = 0 /\ punchOp = None

\* C4: whenever the last reload after a change of the table ends, the three
\* outputs show the table as it is, whichever runs overlapped it.
C4_ReloadShowsStore ==
    [][\A i \in 1..MaxFetches : LastReloadEnds(i) => ViewShows(todayRecord', attendanceHistory', monthlyHours')]_vars

\* C5: the status a punch-out writes is 'present' when the time from the
\* row's punch_in_time to the punch_out_time it writes is 8 hours or more,
\* 'partial' from 4 hours up to 8, and 'absent' below 4 hours.
C5_StatusByElapsed ==
    [][\A i \in StoreIds :
          store'[i] # store[i] =>
              LET elapsed == store'[i].punch_out_time[1] - store'[i].punch_in_time[1]
              IN /\ elapsed >= 8 * TicksPerHour => store'[i].status = Some("present")
                 /\ (4 * TicksPerHour <= elapsed /\ elapsed < 8 * TicksPerHour)
                        => store'[i].status = Some("partial")
                 /\ elapsed < 4 * TicksPerHour => store'[i].status = Some("absent")]_vars

\* A punch-out exactly 8 hours after the punch-in has written 'present'.
C5_Witness ==
    /\ toast = "Punched Out"
    /\ store[1].punch_out_time = Some(clock)
    /\ clock - store[1].punch_in_time[1] = 8 * TicksPerHour
    /\ store[1].status = Some("present")

\* C6: total_hours is null on a row without punch_out_time, and on every
\* other row it is the hundredth of an hour nearest to the time from
\* punch_in_time to punch_out_time.
C6_TotalHoursIsElapsed ==
    \A i \in StoreIds :
        /\ store[i].punch_out_time = None => store[i].total_hours = None
        /\ store[i].total_hours # None =>
              /\ store[i].punch_out_time # None
              /\ LET elapsed == store[i].punch_out_time[1] - store[i].punch_in_time[1]
                     diff == store[i].total_hours[1] * TicksPerHour - 100 * elapsed
                 IN 2 * diff <= TicksPerHour /\ 2 * diff >= 0 - TicksPerHour

\* A punch-out 8 hours and a quarter after the punch-in has written 8.25.
C6_Witness ==
    /\ toast = "Punched Out"
    /\ store[1].punch_out_time = Some(clock)
    /\ clock - store[1].punch_in_time[1] = 8 * TicksPerHour + TicksPerHour \div 4
    /\ store[1].total_hours = Some(825)

\* The load of the month's hours ends.
MonthLoadEnds(i) == FetchResumes(i) /\ fetches[i].pc = "month"

\* The rows of the employee in the month of today.
MonthOfEmployee ==
    {i \in StoreIds : /\ store[i].employee_id = employee
                      /\ MonthOf(store[i].attendance_date) = MonthOf(today)}

\* C7 as stated: after a load that completes, monthlyHours equals the sum of
\* totalHours (absent as 0) over exactly the employee's records of the current
\* month, whatever the order the records are visited in.
C7_MonthlyHoursIsSum ==
    [][\A i \in 1..MaxFetches :
          MonthLoadEnds(i) => monthlyHours' = FromHundredths(HoursOf(MonthOfEmployee))]_vars

\* C7: after a load that completes, monthlyHours is within half a hundredth
\* of an hour of the sum of totalHours (absent as 0) over exactly the
\* employee's records of the current month, whatever the order the records
\* are visited in.
C7_MonthlyHoursNearSum ==
    [][\A i \in 1..MaxFetches :
          MonthLoadEnds(i) => AgreeToHundredths(monthlyHours', HoursOf(MonthOfEmployee))]_vars

\* A load has ended over a table with two records of the month for the
\* employee and a record left out of the sum, and the Number it left is not
\* the Number that the sum of the decimals is.
C7_Witness ==
    /\ ~loading /\ fetches = <<>>
    /\ Cardinality({i \in MonthOfEmployee : store[i].total_hours # None}) >= 2
    /\ \E i \in StoreIds \ MonthOfEmployee : store[i].total_hours # None
    /\ monthlyHours # FromHundredths(HoursOf(MonthOfEmployee))
    /\ AgreeToHundredths(monthlyHours, HoursOf(MonthOfEmployee))

\* C8: the status shown for today.
C8_StatusShown ==
    LET shown == getStatus(todayRecord)
    IN /\ todayRecord = None => shown = "absent"
       /\ todayRecord # None =>
            LET r == todayRecord[1]
            IN IF r.status \in {Some("present"), Some("partial")} THEN Some(shown) = r.status
               ELSE IF r.punch_in_time # None /\ r.punch_out_time = None THEN shown = "present"
               ELSE shown = "absent"

\* An open row without a status is loaded.
C8_Witness ==
    /\ todayRecord # None
    /\ todayRecord[1].status = None
    /\ todayRecord[1].punch_out_time = None
    /\ ~loading

\* C9: on a row with punch_out_time, status is what the thresholds give for
\* the stored total_hours.
C9_StatusByTotalHours ==
    \A i \in StoreIds :
        store[i].punch_out_time # None =>
            LET h == store[i].total_hours[1]
            IN /\ h >= 800 => store[i].status = Some("present")
               /\ (400 <= h /\ h < 800) => store[i].status = Some("partial")
               /\ h < 400 => store[i].status = Some("absent")

\* C10: a punch_out_time is later than the row's punch_in_time.
C10_OutAfterIn ==
    \A i \in StoreIds :
        store[i].punch_out_time # None => store[i].punch_out_time[1] > store[i].punch_in_time[1]

\* The rows a step changes.
Written == {i \in StoreIds : store'[i] # store[i]}

\* C11: no step removes a row or changes the id, employee_id,
\* attendance_date, punch_in_time or notes of a row; a step that changes a
\* row is the update of a punch-out, and the row is the one its id selects,
\* every other row staying as it is.
C11_Frame ==
    [][/\ Len(store') >= Len(store)
       /\ \A i \in StoreIds :
             /\ store'[i].id = store[i].id
             /\ store'[i].employee_id = store[i].employee_id
             /\ store'[i].attendance_date = store[i].attendance_date
             /\ store'[i].punch_in_time = store[i].punch_in_time
             /\ store'[i].notes = store[i].notes
       /\ Written # {} =>
             /\ punchOp # None /\ punchOp[1].op = "update"
             /\ Written = {i \in StoreIds : store[i].id = punchOp[1].id}
             /\ Cardinality(Written) = 1]_vars

\* The employee has punched in over a table of two rows, one of them the
\* employee's own of another day, and has punched out of the new row.
C11_Witness ==
    /\ Len(store) = 3
    /\ toast = "Punched Out"
    /\ store[3].punch_in_time = Some(clock) /\ store[3].punch_out_time = Some(clock)
    /\ \E i \in 1..2 : store[i].employee_id = store[3].employee_id

\* A handler of a punch ends, whatever the store answered.
PunchEnds == PunchInCompletes \/ PunchInFails \/ PunchOutCompletes \/ PunchOutFails

\* Run i of fetchAttendance ends, in its catch block or after its last setter.
LoadEnds(i) == FetchFails(i) \/ (FetchResumes(i) /\ fetches[i].pc = "month")

\* C12: a punch that has started ends, and ends with punching false; a load
\* that has started ends, and ends with loading false; this on every outcome.
\* No step but the employee's click sends a write and no step but a change
\* notification starts a load, so nothing is tried again by itself; and when
\* neither flag is set the page takes the next punch.
C12_HandlersEnd ==
    /\ punching ~> ~punching
    /\ loading ~> ~loading
    /\ [][/\ PunchEnds => ~punching' /\ punchOp' = None
          /\ \A i \in 1..MaxFetches : LoadEnds(i) => ~loading' /\ Len(fetches') = Len(fetches) - 1
          /\ (punchOp' # None /\ punchOp' # punchOp) => (PunchIn \/ PunchOut)
          /\ Len(fetches') > Len(fetches) => RealtimeUpdate]_vars
    /\ [](~loading /\ ~punching /\ todayRecord = None => ENABLED PunchIn)
    /\ [](~loading /\ ~punching /\ isPunchedIn => ENABLED PunchOut)

\* A write or a load has failed with the toast 'Error', every handler has
\* ended, and the page shows the open row with neither flag set.
C12_Witness ==
    /\ toast = "Error"
    /\ ~punching /\ punchOp = None
    /\ ~loading /\ fetches = <<>>
    /\ isPunchedIn

\* C13: whenever the page shows a todayRecord and is not loading, the row is
\* the signed-in employee's row of today, also when the employee or the day
\* has changed while a load for the employee or day before was under way.
C13_TodayRecordIsCurrent ==
    (todayRecord # None /\ ~loading) =>
        /\ todayRecord[1].employee_id = employee
        /\ todayRecord[1].attendance_date = today

====
